---- MODULE Spec2Model ----
(***************************************************************************)
(* Model of src/main.ts: SunriseSunsetSensor, a binary sensor that arms    *)
(* two single-shot timers (trigger / untrigger) against the solar times of *)
(* a linked position sensor and re-arms itself when the end timer fires.   *)
(*                                                                         *)
(* Time is measured in ticks relative to the most recent local midnight    *)
(* (todayMidnight, main.ts:58-59); a day is DayLen ticks long.  A pending  *)
(* timer holds its remaining delay, as a setTimeout timer does.            *)
(***************************************************************************)
EXTENDS FiniteSets, Integers, Sequences, TLC

\* ------------------------------------------------------------------ bounds
\* Ticks in one calendar day.
DayLen == 7
\* putSetting calls that may be suspended at their await at the same time.
MaxPendingPuts == 1
\* Sensors of one nativeId that are deleted from devices and still alive.
MaxStale == 1

\* ------------------------------------------------------------- environment
\* Devices that implement PositionSensor and can be linked.
Sensors == {"gpsA", "gpsB"}
\* An unset storage value (storage.getItem returned null).
Unset == "unset"
\* The choices of the mode setting.
Modes == {"sunrise", "sunset"}
\* What positionSensor.position can be:
\*   west    a position west of its time zone's meridian: SunCalc.getTimes of a
\*           local midnight returns the solar events of the previous local day
\*   east    a position for which it returns the events of the same local day
\*   polar   a position where the sun does not rise or set: Invalid Date
\*   missing positionSensor.position is undefined
Positions == {"west", "east", "polar", "missing"}

VARIABLES
    now,                  \* Date.now(), ticks since today's local midnight
    linkedPositionSensor, \* storageSettings.values.linkedPositionSensor
    mode,                 \* storageSettings.values.mode
    position,             \* position of every position sensor
    timers,               \* pending setTimeout timers; ref is the field of the
                          \* sensor that holds the timer's handle, if any
    listeners,            \* active listen() registrations; ref likewise
    binaryState,          \* this.binaryState of the sensor of devices (of
                          \* the sensor constructed last, when devices is
                          \* empty)
    deviceStatePer,       \* how the host keeps the device state behind
                          \* this.binaryState (ScryptedDeviceBase, main.ts:12):
                          \* "nativeId", one state that every sensor object
                          \* of the nativeId reads and writes, or "object",
                          \* a state of each sensor object; "either" while
                          \* one sensor object only has been constructed and
                          \* the two cannot be told apart
    pendingPuts,          \* putSetting calls suspended at their await
    threw,                \* the last handler ended by throwing
    last,                 \* the operation that ran last
    prev,                 \* the operation that ran before it
    devices,              \* SunriseSunsetPlugin.devices.has(nativeId)
    stale                 \* the sensors of this nativeId that the plugin has
                          \* deleted from devices and that still hold a
                          \* timer or a listener, each with the binaryState
                          \* it reads

vars == <<now, linkedPositionSensor, mode, position, timers, listeners,
          binaryState, deviceStatePer, pendingPuts, threw, last, prev,
          devices, stale>>

\* The plugin's state.
plugin == <<devices, stale>>

\* A handle held by no field of the sensor.
NoField == "none"

\* The fields of the sensor that setupSensor and release work on.  A field
\* whose handle is of no pending timer (never assigned, fired or cleared) is
\* the field no timer's ref names: clearTimeout of such a handle does nothing.
Self == [timers |-> timers, listeners |-> listeners, threw |-> FALSE]

\* The pending timer this.startTimeout / this.endTimeout refers to, as a set.
startTimeout == {t \in timers : t.ref = "startTimeout"}
endTimeout == {t \in timers : t.ref = "endTimeout"}
\* The active registration this.positionListener refers to, as a set.
positionListener == {l \in listeners : l.ref = "positionListener"}

\* ------------------------------------------------------------ solar times
\* A Date; getTime() of an Invalid Date is NaN.
Instant(t) == [valid |-> TRUE, time |-> t]
InvalidDate == [valid |-> FALSE, time |-> 0]

\* date.getTime() > now, false for NaN.
After(date, t) == date.valid /\ date.time > t

\* The local day whose events SunCalc.getTimes returns for the local
\* midnight of day `day` (0 today, 1 tomorrow, 2 the day after).
SolarDay(day, p) == IF p = "west" THEN day - 1 ELSE day

\* SunCalc.getTimes(midnight of `day`, latitude, longitude) at position p.
getTimes(day, p) ==
    LET base == SolarDay(day, p) * DayLen
    IN  IF p = "polar"
        THEN [day |-> day, sunrise |-> InvalidDate, sunriseEnd |-> InvalidDate,
              sunsetStart |-> InvalidDate, sunset |-> InvalidDate]
        ELSE [day |-> day,
              sunrise     |-> Instant(base + 1),
              sunriseEnd  |-> Instant(base + 3),
              sunsetStart |-> Instant(base + DayLen - 3),
              sunset      |-> Instant(base + DayLen - 1)]

\* ----------------------------------------------------------------- timers
\* field = setTimeout(handler, delay): the handle the field held before is
\* held by no field any more.  event and day say what the timer was armed for.
setTimeout(s, field, handler, delay, event, day) ==
    [s EXCEPT !.timers =
        {IF t.ref = field THEN [t EXCEPT !.ref = NoField] ELSE t : t \in s.timers}
        \cup {[ref |-> field, handler |-> handler, delay |-> delay,
               event |-> event, day |-> day]}]

\* clearTimeout(this.<field>)
clearTimeout(s, field) ==
    [s EXCEPT !.timers = {t \in s.timers : t.ref # field}]

\* this.positionListener = positionSensor.listen(PositionSensor, callback)
listen(s, sensor) ==
    [s EXCEPT !.listeners =
        {IF l.ref = "positionListener" THEN [l EXCEPT !.ref = NoField] ELSE l :
            l \in s.listeners}
        \cup {[ref |-> "positionListener", sensor |-> sensor]}]

\* removeListener() that leaves the registration active.
removeListenerNoop(s) == s

\* this.positionListener?.removeListener()
removeListener(s) ==
    [s EXCEPT !.listeners = {l \in s.listeners : l.ref # "positionListener"}]

\* ----------------------------------------------------------------- release
\* release() that forgets clearTimeout(this.endTimeout).
releaseKeepsEnd(s) ==
    clearTimeout(removeListener(s), "startTimeout")

\* release() that forgets clearTimeout(this.startTimeout).
releaseKeepsStart(s) ==
    clearTimeout(removeListener(s), "endTimeout")

\* release() that clears the end timer only when no start timer is pending
\* (an else-if in place of two statements).
releaseOneAtATime(s) ==
    IF \E t \in s.timers : t.ref = "startTimeout"
    THEN clearTimeout(removeListener(s), "startTimeout")
    ELSE clearTimeout(removeListener(s), "endTimeout")

release(s) ==
    clearTimeout(clearTimeout(removeListener(s), "startTimeout"), "endTimeout")

\* --------------------------------------------------- doSunrise / doSunset
\* doSunrise / doSunset with the end timer in an else branch: it is armed only
\* when the start instant has passed.
armElseIf(s, t, day, startEvent, start, endEvent, end) ==
    LET s1 == IF After(start, t)
              THEN setTimeout(s, "startTimeout", "trigger", start.time - t,
                              startEvent, day)
              ELSE IF After(end, t)
              THEN setTimeout(s, "endTimeout", "untrigger", end.time - t,
                              endEvent, day)
              ELSE s
    IN  [self |-> s1, hasEvent |-> After(start, t) \/ After(end, t)]

\* Arms the start timer for `start` and the end timer for `end` when they are
\* after t; the common body of doSunrise and doSunset.
arm(s, t, day, startEvent, start, endEvent, end) ==
    LET s1 == IF After(start, t)
              THEN setTimeout(s, "startTimeout", "trigger", start.time - t,
                              startEvent, day)
              ELSE s
        s2 == IF After(end, t)
              THEN setTimeout(s1, "endTimeout", "untrigger", end.time - t,
                              endEvent, day)
              ELSE s1
    IN  [self |-> s2, hasEvent |-> After(start, t) \/ After(end, t)]

doSunrise(s, times, t) ==
    arm(s, t, times.day, "sunrise", times.sunrise, "sunriseEnd", times.sunriseEnd)

doSunset(s, times, t) ==
    arm(s, t, times.day, "sunsetStart", times.sunsetStart, "sunset", times.sunset)

\* ------------------------------------------------------------- setupSensor
\* a || b || c over the three days, with the routine of each day.
firstOf(s, t, a, b, c) ==
    IF a.hasEvent THEN a.self
    ELSE IF b.hasEvent THEN b.self
    ELSE c.self

\* setupSensor that returns on an incomplete configuration before release().
setupSensorReturnsFirst(s, lps, md, pos, t) ==
    IF lps = Unset \/ md = Unset
    THEN s
    ELSE
      LET l == listen(release(s), lps)
          p == pos[lps]
      IN  IF p = "missing"
          THEN [l EXCEPT !.threw = TRUE]
          ELSE IF md = "sunrise"
          THEN firstOf(l, t, doSunrise(l, getTimes(0, p), t),
                             doSunrise(l, getTimes(1, p), t),
                             doSunrise(l, getTimes(2, p), t))
          ELSE firstOf(l, t, doSunset(l, getTimes(0, p), t),
                             doSunset(l, getTimes(1, p), t),
                             doSunrise(l, getTimes(2, p), t))

setupSensor(s, lps, md, pos, t) ==
    LET r == release(s)
    IN  IF lps = Unset \/ md = Unset
        THEN r
        ELSE
          LET l == listen(r, lps)
              p == pos[lps]
              todayTimes == getTimes(0, p)
              tomorrowTimes == getTimes(1, p)
              dayAfterTomorrowTimes == getTimes(2, p)
          IN  IF p = "missing"
              THEN [l EXCEPT !.threw = TRUE]
              ELSE IF md = "sunrise"
              THEN firstOf(l, t, doSunrise(l, todayTimes, t),
                                 doSunrise(l, tomorrowTimes, t),
                                 doSunrise(l, dayAfterTomorrowTimes, t))
              ELSE firstOf(l, t, doSunset(l, todayTimes, t),
                                 doSunset(l, tomorrowTimes, t),
                                 doSunrise(l, dayAfterTomorrowTimes, t))

\* The sensor's fields become those of s.
Becomes(s) ==
    /\ timers' = s.timers
    /\ listeners' = s.listeners
    /\ threw' = s.threw

\* ------------------------------------------------------------------- Init
\* getDevice(nativeId) on the empty devices map: new
\* SunriseSunsetSensor(nativeId), whose constructor runs setupSensor on the
\* stored settings; the sensor is put into devices when the constructor
\* returns, not when it throws.
Init ==
    /\ now \in 0..(DayLen - 1)
    /\ linkedPositionSensor \in Sensors \cup {Unset}
    /\ mode \in Modes \cup {Unset}
    /\ position \in [Sensors -> Positions]
    /\ binaryState = FALSE
    /\ deviceStatePer = "either"
    /\ pendingPuts = 0
    /\ last = "constructor"
    /\ prev = "none"
    /\ stale = {}
    /\ LET blank == [timers |-> {}, listeners |-> {}, threw |-> FALSE]
           s == setupSensor(blank, linkedPositionSensor, mode, position, now)
       IN  /\ timers = s.timers
           /\ listeners = s.listeners
           /\ threw = s.threw
           /\ devices = ~s.threw

\* ---------------------------------------------------------------- actions
\* The runtime runs the handler of timer t.  It counts the delay of
\* setTimeout (main.ts:88, 94, 106, 112) on its own clock, which may be ahead
\* of Date.now(): the handler runs when Date.now() has reached the instant
\* the timer was armed for, or when it is still one tick short of it.
Due(t) == t.delay \in {0, 1}

\* The deleted sensors st after this.binaryState = b has been written to the
\* nativeId's device state, which they read too.
Shared(st, b) ==
    IF deviceStatePer = "object"
    THEN st
    ELSE {[i EXCEPT !.binaryState = b] : i \in st}

\* One tick of time passes; the handler of a timer has run by the time
\* Date.now() passes the instant the timer was armed for.
Tick ==
    /\ \A t \in timers : t.delay > 0
    /\ \A i \in stale : \A t \in i.timers : t.delay > 0
    /\ now' = (now + 1) % DayLen
    /\ timers' = {[t EXCEPT !.delay = t.delay - 1] : t \in timers}
    /\ stale' = {[i EXCEPT !.timers =
                     {[t EXCEPT !.delay = t.delay - 1] : t \in i.timers}] :
                 i \in stale}
    /\ last' = "tick"
    /\ prev' = last
    /\ UNCHANGED deviceStatePer
    /\ UNCHANGED devices
    /\ threw' = FALSE
    /\ UNCHANGED <<linkedPositionSensor, mode, position, listeners, binaryState,
                   pendingPuts>>

\* trigger() that also runs setupSensor, as untrigger() does.
triggerReschedules(t) ==
    /\ t \in timers /\ Due(t) /\ t.handler = "trigger"
    /\ binaryState' = TRUE
    /\ Becomes(setupSensor([Self EXCEPT !.timers = timers \ {t}],
                           linkedPositionSensor, mode, position, now))
    /\ last' = "trigger"
    /\ prev' = last
    /\ UNCHANGED deviceStatePer
    /\ UNCHANGED devices
    /\ stale' = Shared(stale, TRUE)
    /\ UNCHANGED <<now, linkedPositionSensor, mode, position, pendingPuts>>

\* trigger(): the start timer fires.
trigger(t) ==
    /\ t \in timers /\ Due(t) /\ t.handler = "trigger"
    /\ binaryState' = TRUE
    /\ timers' = timers \ {t}
    /\ last' = "trigger"
    /\ prev' = last
    /\ UNCHANGED deviceStatePer
    /\ UNCHANGED devices
    /\ stale' = Shared(stale, TRUE)
    /\ threw' = FALSE
    /\ UNCHANGED <<now, linkedPositionSensor, mode, position, listeners, pendingPuts>>

\* untrigger(): the end timer fires.
untrigger(t) ==
    /\ t \in timers /\ Due(t) /\ t.handler = "untrigger"
    /\ binaryState' = FALSE
    /\ Becomes(setupSensor([Self EXCEPT !.timers = timers \ {t}],
                           linkedPositionSensor, mode, position, now))
    /\ last' = "untrigger"
    /\ prev' = last
    /\ UNCHANGED deviceStatePer
    /\ UNCHANGED devices
    /\ stale' = Shared(stale, FALSE)
    /\ UNCHANGED <<now, linkedPositionSensor, mode, position, pendingPuts>>

\* putSetting(key, value) up to its await: the value is stored.
putSettingStore(key, value) ==
    /\ pendingPuts < MaxPendingPuts
    /\ \/ /\ key = "linkedPositionSensor"
          /\ value \in Sensors \cup {Unset}
          /\ linkedPositionSensor' = value
          /\ UNCHANGED mode
       \/ /\ key = "mode"
          /\ value \in Modes \cup {Unset}
          /\ mode' = value
          /\ UNCHANGED linkedPositionSensor
    /\ pendingPuts' = pendingPuts + 1
    /\ last' = "putSettingStore"
    /\ prev' = last
    /\ UNCHANGED deviceStatePer
    /\ UNCHANGED plugin
    /\ threw' = FALSE
    /\ UNCHANGED <<now, position, timers, listeners, binaryState>>

\* putSetting after its await: setupSensor runs.
putSetting ==
    /\ pendingPuts > 0
    /\ pendingPuts' = pendingPuts - 1
    /\ Becomes(setupSensor(Self, linkedPositionSensor, mode, position, now))
    /\ last' = "putSetting"
    /\ prev' = last
    /\ UNCHANGED deviceStatePer
    /\ UNCHANGED plugin
    /\ UNCHANGED <<now, linkedPositionSensor, mode, position, binaryState>>

\* The listener runs setupSensor on the position read before the change.
positionChangedStale(sensor, p) ==
    /\ position' = [position EXCEPT ![sensor] = p]
    /\ IF \E l \in listeners : l.sensor = sensor
       THEN /\ Becomes(setupSensor(Self, linkedPositionSensor, mode,
                                   position, now))
            /\ last' = "positionListener"
       ELSE /\ UNCHANGED <<timers, listeners>>
            /\ threw' = FALSE
            /\ last' = "positionIgnored"
    /\ prev' = last
    /\ UNCHANGED deviceStatePer
    /\ UNCHANGED plugin
    /\ UNCHANGED <<now, linkedPositionSensor, mode, binaryState, pendingPuts>>

\* Position sensor `sensor` reports position p; a registered listener runs
\* setupSensor.
positionChanged(sensor, p) ==
    /\ position' = [position EXCEPT ![sensor] = p]
    /\ IF \E l \in listeners : l.sensor = sensor
       THEN /\ Becomes(setupSensor(Self, linkedPositionSensor, mode,
                                   position', now))
            /\ last' = "positionListener"
       ELSE /\ UNCHANGED <<timers, listeners>>
            /\ threw' = FALSE
            /\ last' = "positionIgnored"
    /\ prev' = last
    /\ UNCHANGED deviceStatePer
    /\ UNCHANGED plugin
    /\ UNCHANGED <<now, linkedPositionSensor, mode, binaryState, pendingPuts>>

\* release() that also switches the sensor off.
ReleaseResetsState ==
    /\ Becomes(release(Self))
    /\ binaryState' = FALSE
    /\ last' = "release"
    /\ prev' = last
    /\ UNCHANGED deviceStatePer
    /\ UNCHANGED devices
    /\ stale' = Shared(stale, FALSE)
    /\ UNCHANGED <<now, linkedPositionSensor, mode, position, pendingPuts>>

\* release() called on the sensor.
Release ==
    /\ Becomes(release(Self))
    /\ last' = "release"
    /\ prev' = last
    /\ UNCHANGED deviceStatePer
    /\ UNCHANGED plugin
    /\ UNCHANGED <<now, linkedPositionSensor, mode, position, binaryState,
                   pendingPuts>>

FireStart == \E t \in timers : trigger(t)
FireEnd == \E t \in timers : untrigger(t)
PutSettingStore ==
    \E key \in {"linkedPositionSensor", "mode"} :
        \E value \in Sensors \cup Modes \cup {Unset} : putSettingStore(key, value)
PositionChanged == \E sensor \in Sensors : \E p \in Positions : positionChanged(sensor, p)

Next ==
    \/ Tick
    \/ FireStart
    \/ FireEnd
    \/ PutSettingStore
    \/ putSetting
    \/ PositionChanged
    \/ Release

Spec == Init /\ [][Next]_vars

\* ----------------------------------------------------------------- plugin
\* Sensors deleted from devices that may be alive at the same time.
\* (A sensor with no timer and no listener can never run again.)
Alive(i) == i.timers # {} \/ i.listeners # {}

\* The sensor the variables describe, as a deleted sensor.
Instance == [timers |-> timers, listeners |-> listeners,
             binaryState |-> binaryState]

\* releaseDevice(id, nativeId): this.devices.delete(nativeId).
releaseDevice ==
    /\ devices' = FALSE
    /\ last' = "releaseDevice"
    /\ prev' = last
    /\ UNCHANGED deviceStatePer
    /\ threw' = FALSE
    /\ UNCHANGED <<now, linkedPositionSensor, mode, position, timers,
                   listeners, binaryState, pendingPuts, stale>>

\* getDevice(nativeId): the sensor of devices, or a new sensor, whose
\* constructor runs setupSensor and which is put into devices when the
\* constructor returns.  The deleted sensor lives on with what it holds.  The
\* constructor does not write binaryState: the new sensor reads the state of
\* the nativeId where the host keeps one, and an unset state of its own (not
\* true) where the host keeps a state per sensor object.
getDevice ==
    /\ IF devices
       THEN /\ UNCHANGED <<timers, listeners, binaryState, deviceStatePer,
                           devices, stale>>
            /\ threw' = FALSE
       ELSE /\ Cardinality(stale) < MaxStale
            /\ deviceStatePer' \in IF deviceStatePer = "either"
                                   THEN {"nativeId", "object"}
                                   ELSE {deviceStatePer}
            /\ binaryState' = IF deviceStatePer' = "object"
                              THEN FALSE
                              ELSE binaryState
            /\ stale' = stale \cup {i \in {Instance} : Alive(i)}
            /\ Becomes(setupSensor([timers |-> {}, listeners |-> {},
                                    threw |-> FALSE],
                                   linkedPositionSensor, mode, position, now))
            /\ devices' = ~threw'
    /\ last' = "getDevice"
    /\ prev' = last
    /\ UNCHANGED <<now, linkedPositionSensor, mode, position, pendingPuts>>

\* The start timer of a deleted sensor fires: trigger() writes the state the
\* deleted sensor reads, which is the nativeId's or its own.
staleTrigger(i, t) ==
    /\ i \in stale /\ t \in i.timers /\ Due(t) /\ t.handler = "trigger"
    /\ LET st == (stale \ {i}) \cup
                    {[i EXCEPT !.timers = i.timers \ {t}, !.binaryState = TRUE]}
       IN  /\ stale' = Shared(st, TRUE)
           /\ binaryState' = IF deviceStatePer = "object"
                             THEN binaryState
                             ELSE TRUE
    /\ last' = "staleTrigger"
    /\ prev' = last
    /\ UNCHANGED deviceStatePer
    /\ threw' = FALSE
    /\ UNCHANGED <<now, linkedPositionSensor, mode, position, timers,
                   listeners, pendingPuts, devices>>

\* The end timer of a deleted sensor fires: untrigger() writes the state the
\* deleted sensor reads and runs setupSensor on the deleted sensor.
staleUntrigger(i, t) ==
    /\ i \in stale /\ t \in i.timers /\ Due(t) /\ t.handler = "untrigger"
    /\ LET s == setupSensor([timers |-> i.timers \ {t},
                             listeners |-> i.listeners, threw |-> FALSE],
                            linkedPositionSensor, mode, position, now)
           st == (stale \ {i}) \cup
                    {j \in {[timers |-> s.timers, listeners |-> s.listeners,
                             binaryState |-> FALSE]} : Alive(j)}
       IN  /\ stale' = Shared(st, FALSE)
           /\ binaryState' = IF deviceStatePer = "object"
                             THEN binaryState
                             ELSE FALSE
           /\ threw' = s.threw
    /\ last' = "staleUntrigger"
    /\ prev' = last
    /\ UNCHANGED deviceStatePer
    /\ UNCHANGED <<now, linkedPositionSensor, mode, position, timers,
                   listeners, pendingPuts, devices>>

StaleFireStart == \E i \in stale : \E t \in i.timers : staleTrigger(i, t)
StaleFireEnd == \E i \in stale : \E t \in i.timers : staleUntrigger(i, t)

\* The plugin creating and releasing the device while its sensors run on
\* their timers.
PluginNext ==
    \/ Tick
    \/ FireStart
    \/ FireEnd
    \/ StaleFireStart
    \/ StaleFireEnd
    \/ releaseDevice
    \/ getDevice

SpecPlugin == Init /\ [][PluginNext]_vars

\* What the host does with a sensor: it never calls release() itself.
HostNext ==
    \/ Tick
    \/ FireStart
    \/ FireEnd
    \/ PutSettingStore
    \/ putSetting
    \/ PositionChanged

SpecHost == Init /\ [][HostNext]_vars

\* The steady state: a sensor constructed on a complete configuration whose
\* linked sensor has a position with solar events every day, left to its
\* timers.  The event loop runs a due timer and time goes on.
SteadyInit ==
    /\ Init
    /\ linkedPositionSensor # Unset
    /\ mode # Unset
    /\ position[linkedPositionSensor] \in {"west", "east"}

SteadyNext == Tick \/ FireStart \/ FireEnd

SpecSteady ==
    /\ SteadyInit
    /\ [][SteadyNext]_vars
    /\ WF_vars(Tick) /\ WF_vars(FireStart) /\ WF_vars(FireEnd)

\* ------------------------------------------------------------ vocabulary
\* The operations that run setupSensor.
SetupOps == {"constructor", "putSetting", "positionListener", "untrigger"}

\* Both settings are set.
Complete == linkedPositionSensor # Unset /\ mode # Unset

\* The position setupSensor reads.
LinkedPosition == position[linkedPositionSensor]

\* The days of the window: today, tomorrow, the day after tomorrow.
Window == 0..2

\* The start and end event of a mode.
StartEvent(md) == IF md = "sunrise" THEN "sunrise" ELSE "sunsetStart"
EndEvent(md) == IF md = "sunrise" THEN "sunriseEnd" ELSE "sunset"

\* The start and the end instant of mode md on day d at position p.
StartInstant(d, p, md) ==
    IF md = "sunrise" THEN getTimes(d, p).sunrise ELSE getTimes(d, p).sunsetStart
EndInstant(d, p, md) ==
    IF md = "sunrise" THEN getTimes(d, p).sunriseEnd ELSE getTimes(d, p).sunset

\* The instants of mode md on day d at position p that are after t, each as
\* the timer that would be armed for it.
FutureInstants(d, p, md, t) ==
    {[event |-> StartEvent(md), day |-> d, handler |-> "trigger",
      delay |-> StartInstant(d, p, md).time - t] :
        x \in {y \in {StartInstant(d, p, md)} : After(y, t)}}
    \cup
    {[event |-> EndEvent(md), day |-> d, handler |-> "untrigger",
      delay |-> EndInstant(d, p, md).time - t] :
        x \in {y \in {EndInstant(d, p, md)} : After(y, t)}}

\* The days of the window with a future instant of mode md.
FutureDays(p, md, t) == {d \in Window : FutureInstants(d, p, md, t) # {}}

\* The future instants of the earliest day of the window that has any.
FirstFuturePair(p, md, t) ==
    UNION {FutureInstants(d, p, md, t) :
             d \in {e \in FutureDays(p, md, t) :
                      \A f \in FutureDays(p, md, t) : e <= f}}

\* What the pending timers were armed for.
Armed ==
    {[event |-> t.event, day |-> t.day, handler |-> t.handler,
      delay |-> t.delay] : t \in timers}

\* setupSensor has just run to its end on a complete configuration.
JustSetUp == last \in SetupOps /\ Complete /\ ~threw

\* ----------------------------------------------------------------- claims
\* C1: for every valid configuration and every now, right after setupSensor
\* the armed timers are exactly the strictly-future instants of the
\* configured mode's start/end pair of the earliest day of the window that
\* has one; nothing is armed from a later day or for an instant <= now.
C1_ArmsFirstFuturePair ==
    JustSetUp =>
        /\ Armed = FirstFuturePair(LinkedPosition, mode, now)
        /\ \A t \in timers : t.delay > 0

\* C2: window fallback: when day 0's pair of the configured mode is entirely
\* past and day 1 or day 2 has an instant of that mode after now, setupSensor
\* arms that later day's pair of the configured mode; it is never left
\* disarmed while a day of the window has a future instant of the mode.
C2_WindowFallback ==
    JustSetUp =>
        /\ (/\ 0 \notin FutureDays(LinkedPosition, mode, now)
            /\ FutureDays(LinkedPosition, mode, now) # {})
           => /\ Armed = FirstFuturePair(LinkedPosition, mode, now)
              /\ \A t \in timers : t.day > 0
        /\ FutureDays(LinkedPosition, mode, now) # {} => timers # {}

\* C3: mode consistency: every timer setupSensor arms is for an instant of
\* the configured mode, on all three days of the window.
C3_ModeConsistent ==
    JustSetUp =>
        \A t \in timers : t.event \in {StartEvent(mode), EndEvent(mode)}


\* Nothing is armed and nothing is subscribed.
Disarmed == timers = {} /\ listeners = {}

\* C4: state-toggle ordering: untrigger never runs while binaryState is
\* already false (no false -> false, no skipped start).
C4_EndOnlyAfterStart == [][FireEnd => binaryState]_vars

\* C5: disarm completeness: release() leaves no timer pending and no
\* subscription active, and from then on nothing fires, the position
\* listener does not run and binaryState does not change until setupSensor
\* runs again (the only caller left is a suspended putSetting).
C5_DisarmComplete ==
    [][/\ Release => Disarmed'
       /\ (Disarmed /\ ~putSetting) =>
              (Disarmed' /\ UNCHANGED binaryState /\ last' # "positionListener")
      ]_vars

\* Released while active with a complete configuration, and time has moved on.
C5_Witness ==
    /\ last = "tick" /\ Disarmed /\ binaryState
    /\ Complete /\ pendingPuts = 0 /\ LinkedPosition \in {"west", "east"}

\* C6: supersession: at every moment at most one start timer and at most one
\* end timer are pending, and each pending timer is the one the current
\* startTimeout / endTimeout handle refers to (no orphaned pending timer).
C6_NoOrphanTimer ==
    /\ Cardinality({t \in timers : t.handler = "trigger"}) <= 1
    /\ Cardinality({t \in timers : t.handler = "untrigger"}) <= 1
    /\ \A t \in timers :
          /\ t.handler = "trigger" => t \in startTimeout
          /\ t.handler = "untrigger" => t \in endTimeout

\* The start timer fired, so the end timer of that run was pending, and then
\* a position change ran setupSensor again, which armed a new end timer.
C6_Witness ==
    /\ prev = "trigger" /\ last = "positionListener"
    /\ endTimeout # {}

\* C7: re-arm after end: the end firing sets binaryState false and runs
\* setupSensor in the same step, which arms a start and an end timer for
\* instants after the one that fired; binaryState becomes true and false
\* again infinitely often.
C7_RearmsAfterEnd ==
    /\ [][FireEnd =>
            /\ ~binaryState'
            /\ startTimeout' # {} /\ endTimeout' # {}
            /\ \A t \in timers' : t.delay > 0]_vars
    /\ []<>binaryState
    /\ []<>(~binaryState)

\* C8: idempotence: right after setupSensor, running it again on the same
\* configuration, position and now leaves the same armed timers, one pending
\* timer per armed instant, and exactly one active position subscription.
C8_SetupIdempotent ==
    (last \in SetupOps /\ ~threw) =>
        LET again == setupSensor(Self, linkedPositionSensor, mode, position, now)
        IN  /\ again.timers = timers
            /\ again.listeners = listeners
            /\ Cardinality(timers) = Cardinality(Armed)
            /\ Complete => Cardinality(listeners) = 1

\* setupSensor ran twice in a row and both timers are pending.
C8_Witness ==
    /\ prev \in SetupOps /\ last \in {"putSetting", "positionListener"}
    /\ Complete /\ Cardinality(timers) = 2

\* C9: an incomplete configuration is quiescent: setupSensor on it ends with
\* no timer pending and no subscription and leaves binaryState alone, and
\* from then on nothing fires and binaryState does not change.
C9_IncompleteQuiescent ==
    /\ []((last \in SetupOps /\ ~Complete) => (Disarmed /\ ~threw))
    /\ [][/\ (putSetting /\ ~Complete) => UNCHANGED binaryState
          /\ (Disarmed /\ ~Complete) => (Disarmed' /\ UNCHANGED binaryState)
         ]_vars

\* A setting was unset while the sensor was active: setupSensor disarmed it.
C9_Witness ==
    /\ last = "putSetting" /\ ~Complete /\ binaryState /\ Disarmed
    /\ prev \in {"trigger", "tick"}

\* C10: release() is idempotent and total: it never throws, a second call in
\* a row changes nothing, and so does a call when nothing is armed or
\* subscribed.
C10_ReleaseIdempotent ==
    [][Release =>
         /\ ~threw'
         /\ (last = "release" \/ Disarmed) =>
                UNCHANGED <<now, linkedPositionSensor, mode, position, timers,
                            listeners, binaryState, pendingPuts>>
         /\ release(release(Self)) = release(Self)
      ]_vars

\* release() ran twice in a row.
C10_Witness == prev = "release" /\ last = "release"

\* C12: active implies end pending: over any sequence of timer firings,
\* putSetting calls and position changes, binaryState = TRUE implies that an
\* end timer is pending.
C12_ActiveImpliesEndPending == binaryState => endTimeout # {}

\* A timer of timers' that no timer of timers became, by staying or by a tick.
NewlyArmed ==
    {t \in timers' :
        t \notin timers /\ [t EXCEPT !.delay = t.delay + 1] \notin timers}

\* C13: a start firing only sets binaryState to true: the pending end timer,
\* the subscription and the configuration stay as they are; a timer is armed
\* or a subscription made only by putSetting, a position-change notification
\* or an end firing (and by construction).
C13_StartOnlySetsActive ==
    [][/\ \A t \in timers : trigger(t) =>
              /\ binaryState'
              /\ timers' = timers \ {t}
              /\ endTimeout' = endTimeout
              /\ listeners' = listeners
              /\ UNCHANGED <<now, linkedPositionSensor, mode, position>>
       /\ (NewlyArmed # {} \/ listeners' \ listeners # {}) =>
              last' \in {"putSetting", "positionListener", "untrigger"}
      ]_vars

\* The start timer has fired and the end timer of the same run is pending.
C13_Witness ==
    /\ last = "trigger" /\ binaryState
    /\ endTimeout # {} /\ startTimeout = {} /\ listeners # {}

\* C14: binaryState is written only by the timer handlers: it becomes true
\* only in a start firing and false only in an end firing; release(),
\* putSetting and position-change notifications leave it unchanged.
C14_OnlyTimersWriteState ==
    [][/\ (~binaryState /\ binaryState') => FireStart
       /\ (binaryState /\ ~binaryState') => FireEnd
       /\ (Release \/ putSetting \/ PutSettingStore \/ PositionChanged) =>
              UNCHANGED binaryState
      ]_vars

\* release() ran on an active sensor and left it active.
C14_Witness == last = "release" /\ prev = "trigger" /\ binaryState

\* What a sensor constructed now on the current settings and positions arms.
FreshlySetUp ==
    setupSensor([timers |-> {}, listeners |-> {}, threw |-> FALSE],
                linkedPositionSensor, mode, position, now)

\* C15: after every setupSensor run the sensor holds exactly one active
\* position subscription, on the configured position sensor, when the
\* configuration is complete and none otherwise; a position-change
\* notification disarms everything and re-arms from the new position.
C15_OneSubscription ==
    /\ last \in SetupOps =>
          listeners = IF Complete
                      THEN {[ref |-> "positionListener",
                             sensor |-> linkedPositionSensor]}
                      ELSE {}
    /\ last = "positionListener" =>
          /\ timers = FreshlySetUp.timers
          /\ threw = FreshlySetUp.threw

\* The linked sensor was changed by putSetting while the old one was
\* subscribed, and then the new one reported a position.
C15_Witness ==
    /\ prev = "putSetting" /\ last = "positionListener"
    /\ Complete /\ timers # {}
    /\ listeners = {[ref |-> "positionListener", sensor |-> "gpsB"]}

\* C16: setupSensor never throws to its caller: on a missing position or
\* invalid coordinates it ends normally with no timer armed.
C16_SetupNeverThrows == last \in SetupOps => ~threw

\* C17: paired arming: a pending start timer implies a pending end timer of
\* the same day and the same pair, due no earlier than the start timer.
C17_StartImpliesEnd ==
    \A st \in timers : st.handler = "trigger" =>
        \E et \in timers :
            /\ et.handler = "untrigger"
            /\ et \in endTimeout
            /\ et.day = st.day
            /\ et.delay >= st.delay
            /\ <<st.event, et.event>> \in
                   {<<"sunrise", "sunriseEnd">>, <<"sunsetStart", "sunset">>}

\* Both timers of one day's pair are pending and time has moved on since.
C17_Witness ==
    /\ last = "tick" /\ startTimeout # {} /\ endTimeout # {}
    /\ \A st \in startTimeout : \A et \in endTimeout : et.delay > st.delay

\* C11: teardown on device release: after releaseDevice the sensor has no
\* pending timer and no active subscription, so after releaseDevice and
\* getDevice at most one sensor of the nativeId has timers or a subscription.
C11_ReleaseDeviceTearsDown ==
    /\ last = "releaseDevice" => Disarmed
    /\ Cardinality({i \in stale : Alive(i)})
          + (IF Alive(Instance) THEN 1 ELSE 0) <= 1

====
